---- MODULE Spec2Model ----
(***************************************************************************)
(* Model of the bilateral negotiation of src/agent.py: the utility model,  *)
(* the concession strategy and the acceptance rule of NegotiationAgent and *)
(* the alternating-offer loop of NegotiationSimulation.run_negotiation.    *)
(*                                                                         *)
(* Numbers.  The program computes with Python floats.  The model computes  *)
(* with scaled integers:                                                   *)
(*   - a budget is an integer number of 1/BudgetScale currency units, so   *)
(*     that four successive 5% raises of a multiple of 5000 are exact;     *)
(*   - a timeline is an integer number of 1/TimeScale months, so that five *)
(*     successive 10% cuts of a whole number of months are exact;          *)
(*   - a utility is an integer number of 1/UScale, and math.exp / math.log *)
(*     are evaluated by range reduction and a truncated series, accurate   *)
(*     to a few 1/UScale.                                                  *)
(***************************************************************************)
EXTENDS Integers, Sequences, FiniteSets, TLC

VARIABLES sim, call

vars == <<sim, call>>

-----------------------------------------------------------------------------
(* Representation of floats *)

BudgetScale == 32
TimeScale == 100000
UDigits == 4
UScale == 10000

\* floor(num * UScale / den) by long division, one decimal digit at a time
RECURSIVE LongDiv(_, _, _, _)
LongDiv(acc, rem, den, k) ==
    IF k = 0 THEN acc
    ELSE LongDiv(acc * 10 + (rem * 10) \div den, (rem * 10) % den, den, k - 1)

FixDiv(num, den) == LongDiv(num \div den, num % den, den, UDigits)

FixMul(a, b) == (a * b) \div UScale

Abs(x) == IF x < 0 THEN -x ELSE x

Min(a, b) == IF a <= b THEN a ELSE b

Max(a, b) == IF a >= b THEN a ELSE b

-----------------------------------------------------------------------------
(* math.exp and math.log *)

InvE == 3679
Ln2 == 6931
ExpTerms == 8
LnTerms == 9
ExpOverflow == 710

\* e^(-n) for a natural n, by repeated multiplication with 1/e
RECURSIVE ExpNegInt(_, _)
ExpNegInt(acc, n) ==
    IF n = 0 \/ acc = 0 THEN acc ELSE ExpNegInt(FixMul(acc, InvE), n - 1)

\* e^(-f) for 0 <= f < 1: 1 - f (1 - f/2 (1 - f/3 ( ... )))
RECURSIVE ExpSeries(_, _)
ExpSeries(f, k) ==
    IF k > ExpTerms THEN UScale
    ELSE UScale - FixMul(f, ExpSeries(f, k + 1)) \div k

\* e^(-num/den), num >= 0, den > 0
ExpNeg(num, den) ==
    FixMul(ExpNegInt(UScale, num \div den), ExpSeries(FixDiv(num % den, den), 1))

\* 1 / (1 + e^(d/den)), den > 0
Logistic(d, den) ==
    IF d >= 0
    THEN LET e == ExpNeg(d, den) IN FixDiv(e, UScale + e)
    ELSE LET e == ExpNeg(-d, den) IN FixDiv(UScale, UScale + e)

\* num/den = 2^k * (n/d) with 1 <= n/d < 2
RECURSIVE LnNorm(_, _, _)
LnNorm(num, den, k) ==
    IF num >= 2 * den THEN LnNorm(num, 2 * den, k + 1)
    ELSE IF num < den THEN LnNorm(2 * num, den, k - 1)
    ELSE <<num, den, k>>

\* sum over odd j >= k of z^(j-k) / j, in terms of z2 = z^2
RECURSIVE AtanhSeries(_, _)
AtanhSeries(z2, k) ==
    IF k > LnTerms THEN 0
    ELSE UScale \div k + FixMul(z2, AtanhSeries(z2, k + 2))

\* ln(num/den), num > 0, den > 0
Ln(num, den) ==
    LET n == LnNorm(num, den, 0)
        z == FixDiv(n[1] - n[2], n[1] + n[2])
    IN  n[3] * Ln2 + 2 * FixMul(z, AtanhSeries(FixMul(z, z), 1))

-----------------------------------------------------------------------------
(* NegotiationAgent *)

Roles == {"customer", "wedding_planner"}

ServiceLevels == {"Premium", "Standard", "Basic"}

budget_sensitivity == 5000

utility_weights(role) ==
    IF role = "customer"
    THEN [budget |-> 5, services |-> 3, timeline |-> 2]
    ELSE [budget |-> 6, services |-> 3, timeline |-> 1]

calculate_budget_utility_raises_hardened(role, preferences, negotiated_budget) ==
    IF role = "customer"
    THEN (negotiated_budget - preferences.min_budget)
             \div (budget_sensitivity * BudgetScale) >= ExpOverflow
    ELSE \/ preferences.min_budget = 0
         \/ negotiated_budget < preferences.min_budget

\* the call raises: OverflowError of math.exp, ZeroDivisionError of the
\* division by min_budget, ValueError of math.log
calculate_budget_utility_raises(role, preferences, negotiated_budget) ==
    IF role = "customer"
    THEN (negotiated_budget - preferences.min_budget)
             \div (budget_sensitivity * BudgetScale) >= ExpOverflow
    ELSE \/ preferences.min_budget = 0
         \/ negotiated_budget = 0
         \/ (negotiated_budget < 0) # (preferences.min_budget < 0)

calculate_budget_utility_doubled(role, preferences, negotiated_budget) ==
    IF role = "customer"
    THEN 2 * Logistic(negotiated_budget - preferences.min_budget,
                      budget_sensitivity * BudgetScale)
    ELSE Ln(Abs(negotiated_budget), Abs(preferences.min_budget))

calculate_budget_utility_rising(role, preferences, negotiated_budget) ==
    IF role = "customer"
    THEN Logistic(preferences.min_budget - negotiated_budget,
                  budget_sensitivity * BudgetScale)
    ELSE Ln(Abs(negotiated_budget), Abs(preferences.min_budget))

calculate_budget_utility(role, preferences, negotiated_budget) ==
    IF role = "customer"
    THEN Logistic(negotiated_budget - preferences.min_budget,
                  budget_sensitivity * BudgetScale)
    ELSE Ln(Abs(negotiated_budget), Abs(preferences.min_budget))

calculate_services_utility(role, service_level) ==
    IF role = "customer"
    THEN CASE service_level = "Premium" -> 10000
           [] service_level = "Standard" -> 7000
           [] service_level = "Basic" -> 4000
    ELSE CASE service_level = "Premium" -> 10000
           [] service_level = "Standard" -> 8000
           [] service_level = "Basic" -> 5000

\* ZeroDivisionError of the division by max_timeline
calculate_timeline_utility_raises(role, preferences, negotiated_timeline) ==
    preferences.max_timeline = 0

calculate_timeline_utility(role, preferences, negotiated_timeline) ==
    IF role = "customer"
    THEN UScale - FixDiv(Abs(negotiated_timeline - preferences.preferred_timeline),
                         Abs(preferences.max_timeline))
    ELSE IF (negotiated_timeline < 0) = (preferences.max_timeline < 0)
         THEN UScale - FixDiv(Abs(negotiated_timeline), Abs(preferences.max_timeline))
         ELSE UScale + FixDiv(Abs(negotiated_timeline), Abs(preferences.max_timeline))

calculate_total_utility_raises(role, preferences, offer) ==
    \/ calculate_budget_utility_raises(role, preferences, offer.budget)
    \/ calculate_timeline_utility_raises(role, preferences, offer.timeline)

\* the weighted sum, in units of 1 / (10 * UScale): the weights are tenths
calculate_total_utility(role, preferences, offer) ==
    LET weights == utility_weights(role)
    IN  weights.budget * calculate_budget_utility(role, preferences, offer.budget)
      + weights.services * calculate_services_utility(role, offer.services)
      + weights.timeline * calculate_timeline_utility(role, preferences, offer.timeline)

opening_offer(preferences) ==
    [budget |-> preferences.optimal_budget,
     services |-> preferences.optimal_services,
     timeline |-> preferences.optimal_timeline]

generate_offer_uncapped(role, preferences, previous_offer) ==
    IF role = "customer"
    THEN [budget |-> (previous_offer.budget * 21) \div 20,
          services |-> IF previous_offer.services = "Basic"
                       THEN "Standard" ELSE previous_offer.services,
          timeline |-> previous_offer.timeline]
    ELSE [budget |-> previous_offer.budget,
          services |-> previous_offer.services,
          timeline |-> Max((previous_offer.timeline * 9) \div 10, preferences.min_timeline)]

generate_offer_lengthening(role, preferences, previous_offer) ==
    IF role = "customer"
    THEN [budget |-> Min((previous_offer.budget * 21) \div 20, preferences.max_budget),
          services |-> IF previous_offer.services = "Basic"
                       THEN "Standard" ELSE previous_offer.services,
          timeline |-> previous_offer.timeline]
    ELSE [budget |-> previous_offer.budget,
          services |-> previous_offer.services,
          timeline |-> Max((previous_offer.timeline * 11) \div 10, preferences.min_timeline)]

generate_offer_customer_timeline(role, preferences, previous_offer) ==
    IF role = "customer"
    THEN [budget |-> Min((previous_offer.budget * 21) \div 20, preferences.max_budget),
          services |-> IF previous_offer.services = "Basic"
                       THEN "Standard" ELSE previous_offer.services,
          timeline |-> (previous_offer.timeline * 9) \div 10]
    ELSE [budget |-> previous_offer.budget,
          services |-> previous_offer.services,
          timeline |-> Max((previous_offer.timeline * 9) \div 10, preferences.min_timeline)]

generate_offer_upgrading(role, preferences, previous_offer) ==
    IF role = "customer"
    THEN [budget |-> Min((previous_offer.budget * 21) \div 20, preferences.max_budget),
          services |-> IF previous_offer.services = "Basic"
                       THEN "Standard" ELSE "Premium",
          timeline |-> previous_offer.timeline]
    ELSE [budget |-> previous_offer.budget,
          services |-> previous_offer.services,
          timeline |-> Max((previous_offer.timeline * 9) \div 10, preferences.min_timeline)]

generate_offer(role, preferences, previous_offer) ==
    IF role = "customer"
    THEN [budget |-> Min((previous_offer.budget * 21) \div 20, preferences.max_budget),
          services |-> IF previous_offer.services = "Basic"
                       THEN "Standard" ELSE previous_offer.services,
          timeline |-> previous_offer.timeline]
    ELSE [budget |-> previous_offer.budget,
          services |-> previous_offer.services,
          timeline |-> Max((previous_offer.timeline * 9) \div 10, preferences.min_timeline)]

evaluate_offer_strict(role, preferences, offer) ==
    calculate_total_utility(role, preferences, offer)
        > (IF role = "customer" THEN 8 ELSE 6) * UScale

acceptance_threshold_uniform(role) == 8

acceptance_threshold(role) == IF role = "customer" THEN 8 ELSE 6

evaluate_offer(role, preferences, offer) ==
    calculate_total_utility(role, preferences, offer)
        >= acceptance_threshold(role) * UScale

-----------------------------------------------------------------------------
(* Preferences the simulations are constructed from *)

MaxBudgetSteps == 3
MaxCalls == 2

Cur(k) == k * 5000 * BudgetScale

Months(m) == m * TimeScale

\* customer_preferences and planner_preferences of main
main_customer ==
    [min_budget |-> Cur(2), max_budget |-> Cur(10), optimal_budget |-> Cur(3),
     optimal_services |-> "Standard", preferred_timeline |-> Months(6),
     max_timeline |-> Months(12), min_timeline |-> Months(3),
     optimal_timeline |-> Months(6)]

main_planner ==
    [min_budget |-> Cur(2), max_budget |-> Cur(10), optimal_budget |-> Cur(8),
     optimal_services |-> "Premium", preferred_timeline |-> Months(4),
     max_timeline |-> Months(12), min_timeline |-> Months(3),
     optimal_timeline |-> Months(4)]

\* a customer whose opening offer has budget utility 1.0 (exp underflows
\* against 1), services utility 1.0 and timeline utility 0.0
boundary_customer ==
    [min_budget |-> Cur(40), max_budget |-> Cur(10), optimal_budget |-> Cur(1),
     optimal_services |-> "Premium", preferred_timeline |-> Months(0),
     max_timeline |-> Months(12), min_timeline |-> Months(3),
     optimal_timeline |-> Months(12)]

\* a customer whose timeline utility divides by zero
zero_timeline_customer ==
    [min_budget |-> Cur(2), max_budget |-> Cur(10), optimal_budget |-> Cur(2),
     optimal_services |-> "Premium", preferred_timeline |-> Months(0),
     max_timeline |-> Months(0), min_timeline |-> Months(0),
     optimal_timeline |-> Months(0)]

\* a customer whose opening offer has budget 0
zero_budget_customer ==
    [min_budget |-> Cur(2), max_budget |-> Cur(10), optimal_budget |-> Cur(0),
     optimal_services |-> "Basic", preferred_timeline |-> Months(6),
     max_timeline |-> Months(12), min_timeline |-> Months(3),
     optimal_timeline |-> Months(6)]

\* a planner that accepts main's customer only in the last round
late_planner ==
    [min_budget |-> 11000 * BudgetScale, max_budget |-> Cur(10),
     optimal_budget |-> Cur(8), optimal_services |-> "Premium",
     preferred_timeline |-> Months(4), max_timeline |-> Months(12),
     min_timeline |-> Months(3), optimal_timeline |-> Months(4)]

GridCustomers ==
    [min_budget : {Cur(k) : k \in 1..MaxBudgetSteps},
     max_budget : {Cur(k) : k \in 1..MaxBudgetSteps},
     optimal_budget : {Cur(k) : k \in 1..MaxBudgetSteps},
     optimal_services : ServiceLevels,
     preferred_timeline : {Months(6)},
     max_timeline : {Months(12)},
     min_timeline : {Months(3)},
     optimal_timeline : {Months(3), Months(6)}]

GridPlanners ==
    [min_budget : {Cur(k) : k \in 0..MaxBudgetSteps},
     max_budget : {Cur(10)},
     optimal_budget : {Cur(8)},
     optimal_services : {"Premium"},
     preferred_timeline : {Months(5)},
     max_timeline : {Months(12)},
     min_timeline : {Months(3), Months(5)},
     optimal_timeline : {Months(5)}]

CustomerPrefs ==
    GridCustomers \cup {main_customer, boundary_customer, zero_timeline_customer,
                        zero_budget_customer}

PlannerPrefs == GridPlanners \cup {main_planner, late_planner}

-----------------------------------------------------------------------------
(* NegotiationSimulation *)

Agent(s, role) == IF role = "customer" THEN s.customer ELSE s.wedding_planner

Other(role) == IF role = "customer" THEN "wedding_planner" ELSE "customer"

\* NegotiationSimulation.__init__
NewSimulation(customer, wedding_planner) ==
    [customer |-> customer,
     wedding_planner |-> wedding_planner,
     max_rounds |-> 10,
     current_round |-> 0,
     negotiation_history |-> <<>>]

\* no activation of run_negotiation yet; result is <<>> for None and
\* <<offer>> for a returned offer
NoCall ==
    [pc |-> "new", calls |-> 0, base |-> 0,
     customer_offer |-> <<>>, planner_offer |-> <<>>, current_offer |-> <<>>,
     current_agent |-> "none", responding_agent |-> "none", result |-> <<>>]

Terminal == {"agreed", "exhausted", "raised"}

Enter_planner_seed(r) ==
    /\ call' = [call EXCEPT ![r] =
          [pc |-> "loop", calls |-> @.calls + 1,
           base |-> Len(sim[r].negotiation_history),
           customer_offer |-> <<opening_offer(sim[r].customer)>>,
           planner_offer |-> <<opening_offer(sim[r].wedding_planner)>>,
           current_offer |-> <<opening_offer(sim[r].wedding_planner)>>,
           current_agent |-> "wedding_planner",
           responding_agent |-> "customer",
           result |-> <<>>]]
    /\ UNCHANGED sim

Enter_reset_round(r) ==
    /\ call' = [call EXCEPT ![r] =
          [pc |-> "loop", calls |-> @.calls + 1,
           base |-> Len(sim[r].negotiation_history),
           customer_offer |-> <<opening_offer(sim[r].customer)>>,
           planner_offer |-> <<opening_offer(sim[r].wedding_planner)>>,
           current_offer |-> <<opening_offer(sim[r].customer)>>,
           current_agent |-> "wedding_planner",
           responding_agent |-> "customer",
           result |-> <<>>]]
    /\ sim' = [sim EXCEPT ![r].current_round = 0]

\* the statements of run_negotiation before the loop
Enter(r) ==
    /\ call' = [call EXCEPT ![r] =
          [pc |-> "loop", calls |-> @.calls + 1,
           base |-> Len(sim[r].negotiation_history),
           customer_offer |-> <<opening_offer(sim[r].customer)>>,
           planner_offer |-> <<opening_offer(sim[r].wedding_planner)>>,
           current_offer |-> <<opening_offer(sim[r].customer)>>,
           current_agent |-> "wedding_planner",
           responding_agent |-> "customer",
           result |-> <<>>]]
    /\ UNCHANGED sim

loop_condition_inclusive(s) == s.current_round <= s.max_rounds

loop_condition(s) == s.current_round < s.max_rounds

negotiation_round_info_stale(round, current_agent, current_offer, is_accepted) ==
    [round |-> round - 1, offering_agent |-> current_agent,
     offer |-> current_offer, accepted |-> is_accepted]

negotiation_round_info_rejected(round, current_agent, current_offer, is_accepted) ==
    [round |-> round, offering_agent |-> current_agent,
     offer |-> current_offer, accepted |-> FALSE]

negotiation_round_info(round, current_agent, current_offer, is_accepted) ==
    [round |-> round, offering_agent |-> current_agent,
     offer |-> current_offer, accepted |-> is_accepted]

InLoop(r) == call[r].pc = "loop" /\ loop_condition(sim[r])

Raises(r) ==
    calculate_total_utility_raises(call[r].responding_agent,
        Agent(sim[r], call[r].responding_agent), call[r].current_offer[1])

IsAccepted(r) ==
    evaluate_offer(call[r].responding_agent,
        Agent(sim[r], call[r].responding_agent), call[r].current_offer[1])

Record(r, is_accepted) ==
    [sim EXCEPT ![r].current_round = @ + 1,
                ![r].negotiation_history =
                    Append(@, negotiation_round_info(sim[r].current_round + 1,
                        call[r].current_agent, call[r].current_offer[1], is_accepted))]

\* first call of run_negotiation on a constructed simulation
Invoke(r) == call[r].pc = "new" /\ Enter(r)

\* a later call of run_negotiation on the same simulation
Reinvoke(r) == call[r].pc \in Terminal /\ call[r].calls < MaxCalls /\ Enter(r)

\* an iteration in which evaluate_offer raises
RoundRaise(r) ==
    /\ InLoop(r)
    /\ Raises(r)
    /\ sim' = [sim EXCEPT ![r].current_round = @ + 1]
    /\ call' = [call EXCEPT ![r].pc = "raised"]

\* an iteration in which the offer is accepted
RoundAccept(r) ==
    /\ InLoop(r)
    /\ ~Raises(r)
    /\ IsAccepted(r)
    /\ sim' = Record(r, TRUE)
    /\ call' = [call EXCEPT ![r].pc = "agreed", ![r].result = call[r].current_offer]

RoundReject_no_swap(r) ==
    /\ InLoop(r)
    /\ ~Raises(r)
    /\ ~IsAccepted(r)
    /\ sim' = Record(r, FALSE)
    /\ call' = [call EXCEPT
          ![r].current_offer = <<generate_offer(call[r].current_agent,
                                    Agent(sim[r], call[r].current_agent),
                                    call[r].current_offer[1])>>]

\* an iteration in which the offer is rejected
RoundReject(r) ==
    /\ InLoop(r)
    /\ ~Raises(r)
    /\ ~IsAccepted(r)
    /\ sim' = Record(r, FALSE)
    /\ call' = [call EXCEPT
          ![r].current_offer = <<generate_offer(call[r].current_agent,
                                    Agent(sim[r], call[r].current_agent),
                                    call[r].current_offer[1])>>,
          ![r].current_agent = call[r].responding_agent,
          ![r].responding_agent = call[r].current_agent]

\* the loop ends without agreement
Exhaust(r) ==
    /\ call[r].pc = "loop"
    /\ ~loop_condition(sim[r])
    /\ call' = [call EXCEPT ![r].pc = "exhausted", ![r].result = <<>>]
    /\ UNCHANGED sim

Step(r) == RoundRaise(r) \/ RoundAccept(r) \/ RoundReject(r) \/ Exhaust(r)

\* one simulation, run once
Init ==
    \E c \in CustomerPrefs, p \in PlannerPrefs :
        /\ sim = [r \in {1} |-> NewSimulation(c, p)]
        /\ call = [r \in {1} |-> NoCall]

Next == \E r \in DOMAIN sim : Invoke(r) \/ Step(r)

Spec == Init /\ [][Next]_vars

FairSpec == Spec /\ WF_vars(Next)

\* two simulations of the same customer whose planners differ only in
\* optimal_budget, optimal_services and optimal_timeline, each run once
PairCustomers ==
    {c \in CustomerPrefs :
        c.optimal_services = "Standard" /\ c.optimal_timeline = Months(6)}

AltOptimals ==
    {[budget |-> Cur(3), services |-> "Basic", timeline |-> Months(8)],
     [budget |-> Cur(6), services |-> "Standard", timeline |-> Months(3)]}

WithOptimal(p, o) ==
    [p EXCEPT !.optimal_budget = o.budget, !.optimal_services = o.services,
              !.optimal_timeline = o.timeline]

InitPair ==
    \E c \in PairCustomers, p \in PlannerPrefs, o \in AltOptimals :
        /\ sim = [r \in {1, 2} |->
                    IF r = 1 THEN NewSimulation(c, p)
                    ELSE NewSimulation(c, WithOptimal(p, o))]
        /\ call = [r \in {1, 2} |-> NoCall]

PairSpec == InitPair /\ [][Next]_vars

\* one simulation, run_negotiation called up to MaxCalls times
NextMulti == \E r \in DOMAIN sim : Invoke(r) \/ Reinvoke(r) \/ Step(r)

MultiSpec == Init /\ [][NextMulti]_vars

-----------------------------------------------------------------------------
(* Properties of one run on a fresh simulation *)

History(r) == sim[r].negotiation_history

Last(h) == h[Len(h)]

ServiceRank(level) ==
    CASE level = "Basic" -> 1 [] level = "Standard" -> 2 [] level = "Premium" -> 3

\* C1: a run never evaluates an 11th round (the round counter, which counts
\* the evaluate_offer calls, stays <= 10), it ends, and it ends Agreed with
\* an offer returned or Exhausted with None returned unless a utility
\* computation raised.
C1_TerminatesWithinMaxRounds ==
    /\ [](\A r \in DOMAIN sim :
            /\ sim[r].current_round <= 10
            /\ Len(History(r)) <= 10
            /\ call[r].pc = "agreed" => call[r].result # <<>>
            /\ call[r].pc = "exhausted" => call[r].result = <<>>)
    /\ <>(\A r \in DOMAIN sim : call[r].pc \in Terminal)

\* a run that evaluated all 10 rounds and ended Exhausted
C1_Witness ==
    \E r \in DOMAIN sim :
        call[r].pc = "exhausted" /\ sim[r].current_round = 10

\* C2: an offer is returned exactly when some round was accepted, and it is
\* the offer of the last record, which is the accepted one; None is returned
\* exactly when 10 rounds were evaluated and all rejected.
C2_ResultMatchesHistory ==
    \A r \in DOMAIN sim :
        LET h == History(r) IN
        /\ (\E i \in DOMAIN h : h[i].accepted) <=> call[r].pc = "agreed"
        /\ call[r].pc = "agreed" =>
              /\ call[r].result = <<Last(h).offer>>
              /\ Last(h).accepted
              /\ Last(h).round = Len(h)
              /\ Len(h) <= 10
        /\ call[r].result # <<>> => call[r].pc = "agreed"
        /\ call[r].pc = "exhausted" =>
              /\ call[r].result = <<>>
              /\ Len(h) = 10
              /\ \A i \in DOMAIN h : ~h[i].accepted
        /\ (call[r].pc \in {"agreed", "exhausted"} /\ call[r].result = <<>>) =>
              call[r].pc = "exhausted"

\* an agreement reached in the last round, round 10
C2_Witness ==
    \E r \in DOMAIN sim :
        /\ call[r].pc = "agreed"
        /\ Len(History(r)) = 10
        /\ call[r].result = <<History(r)[10].offer>>

HistoryShape(h) ==
    /\ \A i \in DOMAIN h : h[i].round = i
    /\ \A i \in DOMAIN h : h[i].accepted => i = Len(h)

IsPrefix(h, g) == Len(h) <= Len(g) /\ SubSeq(g, 1, Len(h)) = h

\* C3 as stated: in every state of a run the history length equals the
\* round counter, the records carry rounds 1..n in order and only the last
\* record may be accepted.
C3_LengthEqualsRound ==
    \A r \in DOMAIN sim :
        /\ Len(History(r)) = sim[r].current_round
        /\ HistoryShape(History(r))

\* C3 amended: the history only grows by appending, its records carry rounds
\* 1..n in order with only the last possibly accepted, and its length equals
\* the round counter unless evaluate_offer raised in round k, which leaves
\* the counter at k and k - 1 records.
C3_AppendOnlyLog ==
    /\ [](\A r \in DOMAIN sim :
            /\ HistoryShape(History(r))
            /\ call[r].pc # "raised" => Len(History(r)) = sim[r].current_round
            /\ call[r].pc = "raised" => Len(History(r)) = sim[r].current_round - 1)
    /\ [][\A r \in DOMAIN sim : IsPrefix(History(r), History(r)')]_vars

\* a run that ended with several records
C3_Witness ==
    \E r \in DOMAIN sim :
        /\ call[r].pc = "agreed"
        /\ Len(History(r)) = 6
        /\ sim[r].current_round = 6

\* C4: a recorded round is accepted exactly when the evaluating agent's
\* weighted utility of the offer is >= 0.8 (customer) or >= 0.6 (planner),
\* equality included.
C4_AcceptIffUtilityAtLeastThreshold ==
    \A r \in DOMAIN sim : \A i \in DOMAIN History(r) :
        LET h == History(r)[i]
            role == Other(h.offering_agent)
            prefs == Agent(sim[r], role)
            bu == calculate_budget_utility(role, prefs, h.offer.budget)
            su == calculate_services_utility(role, h.offer.services)
            tu == calculate_timeline_utility(role, prefs, h.offer.timeline)
        IN  IF role = "customer"
            THEN h.accepted <=> (5 * bu + 3 * su + 2 * tu >= 80000)
            ELSE h.accepted <=> (6 * bu + 3 * su + 1 * tu >= 60000)

\* an offer whose utility equals the threshold exactly, and is accepted
C4_Witness ==
    \E r \in DOMAIN sim : \E i \in DOMAIN History(r) :
        LET h == History(r)[i] IN
        /\ h.offering_agent = "wedding_planner"
        /\ calculate_total_utility("customer", sim[r].customer, h.offer) = 80000
        /\ h.accepted

BudgetOrdered(p) ==
    p.min_budget <= p.optimal_budget /\ p.optimal_budget <= p.max_budget

TimelineOrdered(p) ==
    p.min_timeline <= p.optimal_timeline /\ p.optimal_timeline <= p.max_timeline

C6_TimelineNeverGrows ==
    \A r \in DOMAIN sim :
        (TimelineOrdered(sim[r].customer) /\ TimelineOrdered(sim[r].wedding_planner)) =>
            \A i \in 1..(Len(History(r)) - 1) :
                History(r)[i + 1].offer.timeline <= History(r)[i].offer.timeline

\* C6 amended: when, in addition, the opening timeline (the customer's
\* optimal_timeline) is non-negative and not below the planner's
\* min_timeline, the recorded timelines never increase and never fall below
\* the planner's min_timeline.
C6_TimelineNeverGrowsFromAboveFloor ==
    \A r \in DOMAIN sim :
        (/\ TimelineOrdered(sim[r].customer)
         /\ TimelineOrdered(sim[r].wedding_planner)
         /\ sim[r].customer.optimal_timeline >= 0
         /\ sim[r].customer.optimal_timeline >= sim[r].wedding_planner.min_timeline) =>
            LET h == History(r) IN
            /\ \A i \in DOMAIN h :
                  h[i].offer.timeline >= sim[r].wedding_planner.min_timeline
            /\ \A i \in 1..(Len(h) - 1) :
                  h[i + 1].offer.timeline <= h[i].offer.timeline

\* a run in which the timeline shrank and then stayed at the planner's floor
C6_Witness ==
    \E r \in DOMAIN sim :
        LET h == History(r) IN
        /\ TimelineOrdered(sim[r].customer)
        /\ TimelineOrdered(sim[r].wedding_planner)
        /\ sim[r].customer.optimal_timeline > sim[r].wedding_planner.min_timeline
        /\ Len(h) >= 6
        /\ h[2].offer.timeline < h[1].offer.timeline
        /\ h[6].offer.timeline = sim[r].wedding_planner.min_timeline

ScenarioB(c) ==
    /\ c.min_budget = c.optimal_budget
    /\ c.optimal_services = "Premium"
    /\ c.optimal_timeline = c.preferred_timeline

\* C7 as stated: for a Scenario B customer the opening offer is accepted in
\* round 1 and the run ends Agreed with a single record.
C7_OpeningOfferAccepted ==
    \A r \in DOMAIN sim :
        (ScenarioB(sim[r].customer) /\ Len(History(r)) >= 1) =>
            /\ History(r)[1].accepted
            /\ call[r].pc = "agreed"
            /\ Len(History(r)) = 1

\* C7 amended: for a Scenario B customer with max_timeline # 0 the total
\* utility of its opening offer is 0.75, below 0.8, so round 1 records the
\* opening offer as rejected and no run ends Agreed with a single record.
C7_OpeningOfferRejected ==
    \A r \in DOMAIN sim :
        (ScenarioB(sim[r].customer) /\ sim[r].customer.max_timeline # 0) =>
            /\ calculate_total_utility("customer", sim[r].customer,
                                       opening_offer(sim[r].customer)) = 75000
            /\ Len(History(r)) >= 1 =>
                  /\ History(r)[1].offer = opening_offer(sim[r].customer)
                  /\ ~History(r)[1].accepted
            /\ call[r].pc = "agreed" => Len(History(r)) >= 2

\* a Scenario B run that has evaluated round 1 and gone on to round 2
C7_Witness ==
    \E r \in DOMAIN sim :
        /\ ScenarioB(sim[r].customer)
        /\ sim[r].customer.max_timeline # 0
        /\ Len(History(r)) = 2

RoleOfRound(k) == IF k % 2 = 1 THEN "wedding_planner" ELSE "customer"

\* C8: round k is recorded as offered by the planner when k is odd and by
\* the customer when k is even, the other role evaluates it, and the offer
\* of round k was generated by the role that evaluates it: the customer's
\* opening offer in round 1, afterwards the evaluating role's counter-offer
\* to the offer of round k - 1.
C8_RolesAlternate ==
    \A r \in DOMAIN sim :
        LET h == History(r) IN
        /\ \A i \in DOMAIN h :
              /\ h[i].offering_agent = RoleOfRound(i)
              /\ i = 1 => h[i].offer = opening_offer(sim[r].customer)
              /\ i > 1 => h[i].offer =
                    generate_offer(Other(RoleOfRound(i)),
                        Agent(sim[r], Other(RoleOfRound(i))), h[i - 1].offer)
        /\ call[r].pc = "loop" =>
              /\ call[r].current_agent = RoleOfRound(sim[r].current_round + 1)
              /\ call[r].responding_agent = Other(call[r].current_agent)

\* a run that reached round 4, whose offers the counterpart would have
\* generated differently
C8_Witness ==
    \E r \in DOMAIN sim :
        LET h == History(r) IN
        /\ Len(h) >= 4
        /\ \A i \in 2..4 :
              h[i].offer # generate_offer(RoleOfRound(i),
                               Agent(sim[r], RoleOfRound(i)), h[i - 1].offer)

\* C9: two runs that differ only in the planner's optimal_budget,
\* optimal_services and optimal_timeline record the same rounds, and end in
\* the same way with the same result and the same history.
C9_PlannerOpeningOfferUnused ==
    /\ \/ IsPrefix(History(1), History(2))
       \/ IsPrefix(History(2), History(1))
    /\ (call[1].pc \in Terminal /\ call[2].pc \in Terminal) =>
          /\ call[1].pc = call[2].pc
          /\ call[1].result = call[2].result
          /\ History(1) = History(2)
          /\ sim[1].current_round = sim[2].current_round

\* both runs ended in agreement although the planners' opening offers differ
C9_Witness ==
    /\ call[1].pc = "agreed"
    /\ call[2].pc = "agreed"
    /\ call[1].planner_offer # call[2].planner_offer
    /\ Len(History(1)) >= 2

-----------------------------------------------------------------------------
(* Properties of repeated calls on one simulation *)

\* C10: the history observed after a call of run_negotiation holds only the
\* records appended by that call, with round numbers starting at 1.
C10_HistoryOfOneCall ==
    \A r \in DOMAIN sim :
        call[r].pc \in Terminal =>
            LET h == History(r)
                appended == SubSeq(h, call[r].base + 1, Len(h))
            IN  /\ h = appended
                /\ \A i \in DOMAIN appended : appended[i].round = i

-----------------------------------------------------------------------------
(* Properties of the utility model and of the concession strategy *)

\* the planner of simulation r is given, or has been given, the current offer
\* to evaluate
PlannerIsGiven(r) ==
    call[r].pc # "new" /\ call[r].responding_agent = "wedding_planner"

\* C11 as stated: for a planner with min_budget > 0, the budget utility of
\* every offer with budget < min_budget is a negative value and the
\* computation does not raise.
C11_BelowMinBudgetNeverRaises ==
    \A r \in DOMAIN sim :
        LET p == sim[r].wedding_planner IN
        (/\ PlannerIsGiven(r)
         /\ p.min_budget > 0
         /\ call[r].current_offer[1].budget < p.min_budget) =>
            /\ ~calculate_budget_utility_raises("wedding_planner", p,
                                                call[r].current_offer[1].budget)
            /\ call[r].pc = "raised" =>
                  calculate_timeline_utility_raises("wedding_planner", p,
                                                    call[r].current_offer[1].timeline)

\* C11 amended: for a planner with min_budget > 0, the budget utility of
\* every offer with 0 < budget < min_budget is a negative value and the
\* computation does not raise (math.log raises for a budget <= 0).
C11_PositiveBelowMinBudgetIsNegative ==
    \A r \in DOMAIN sim :
        LET p == sim[r].wedding_planner IN
        (/\ PlannerIsGiven(r)
         /\ p.min_budget > 0
         /\ 0 < call[r].current_offer[1].budget
         /\ call[r].current_offer[1].budget < p.min_budget) =>
            /\ ~calculate_budget_utility_raises("wedding_planner", p,
                                                call[r].current_offer[1].budget)
            /\ calculate_budget_utility("wedding_planner", p,
                                        call[r].current_offer[1].budget) < 0
            /\ call[r].pc = "raised" =>
                  calculate_timeline_utility_raises("wedding_planner", p,
                                                    call[r].current_offer[1].timeline)

\* the planner evaluated, and rejected, an offer with 0 < budget < min_budget
C11_Witness ==
    \E r \in DOMAIN sim : \E i \in DOMAIN History(r) :
        LET h == History(r)[i] IN
        /\ h.offering_agent = "customer"
        /\ sim[r].wedding_planner.min_budget > 0
        /\ 0 < h.offer.budget
        /\ h.offer.budget < sim[r].wedding_planner.min_budget
        /\ ~h.accepted

\* C13: the offer recorded after a rejected odd round keeps budget and
\* services and has timeline max(0.9 * timeline, planner.min_timeline); the
\* offer recorded after a rejected even round keeps the timeline, has budget
\* min(1.05 * budget, customer.max_budget) and has services Standard if they
\* were Basic and unchanged otherwise.
C13_CounterOfferFrame ==
    \A r \in DOMAIN sim : \A i \in 1..(Len(History(r)) - 1) :
        LET a == History(r)[i].offer
            b == History(r)[i + 1].offer
        IN  IF i % 2 = 1
            THEN /\ b.budget = a.budget
                 /\ b.services = a.services
                 /\ b.timeline = Max((a.timeline * 9) \div 10,
                                     sim[r].wedding_planner.min_timeline)
            ELSE /\ b.timeline = a.timeline
                 /\ b.budget = Min((a.budget * 21) \div 20, sim[r].customer.max_budget)
                 /\ b.services = IF a.services = "Basic" THEN "Standard" ELSE a.services

\* a run in which the planner cut the timeline and the customer then raised
\* the budget and upgraded the services
C13_Witness ==
    \E r \in DOMAIN sim :
        LET h == History(r) IN
        /\ Len(h) >= 3
        /\ h[2].offer.timeline < h[1].offer.timeline
        /\ h[3].offer.budget > h[2].offer.budget
        /\ h[2].offer.services = "Basic"
        /\ h[3].offer.services = "Standard"

\* C14: over a run the recorded services change at most once, and only from
\* Basic to Standard: an opening Standard or Premium is kept in every record
\* and no record is Premium unless the opening offer was.
C14_ServicesChangeOnce ==
    \A r \in DOMAIN sim :
        LET h == History(r)
            opening == sim[r].customer.optimal_services
            changes == {i \in 1..(Len(h) - 1) : h[i + 1].offer.services # h[i].offer.services}
        IN  /\ Cardinality(changes) <= 1
            /\ \A i \in changes :
                  h[i].offer.services = "Basic" /\ h[i + 1].offer.services = "Standard"
            /\ opening # "Basic" => \A i \in DOMAIN h : h[i].offer.services = opening
            /\ \A i \in DOMAIN h : h[i].offer.services = "Premium" => opening = "Premium"

\* a run that opened with Basic, moved to Standard and went through a second
\* customer counter-offer
C14_Witness ==
    \E r \in DOMAIN sim :
        LET h == History(r) IN
        /\ Len(h) >= 5
        /\ h[1].offer.services = "Basic"
        /\ h[3].offer.services = "Standard"
        /\ h[5].offer.services = "Standard"

\* C15: every counter-offer is at least as good for the counterpart of the
\* role that generated it on the dimension it changed: the customer's
\* timeline utility does not drop at a planner counter-offer (after an odd
\* round), the planner's budget and services utilities do not drop at a
\* customer counter-offer (after an even round).
C15_ConcessionsFavourCounterpart ==
    \A r \in DOMAIN sim : \A i \in 1..(Len(History(r)) - 1) :
        LET a == History(r)[i].offer
            b == History(r)[i + 1].offer
            c == sim[r].customer
            p == sim[r].wedding_planner
        IN  IF i % 2 = 1
            THEN calculate_timeline_utility("customer", c, b.timeline)
                    >= calculate_timeline_utility("customer", c, a.timeline)
            ELSE /\ calculate_services_utility("wedding_planner", b.services)
                       >= calculate_services_utility("wedding_planner", a.services)
                 /\ ~calculate_budget_utility_raises("wedding_planner", p, b.budget) =>
                       calculate_budget_utility("wedding_planner", p, b.budget)
                          >= calculate_budget_utility("wedding_planner", p, a.budget)

\* C16: when the customer's Preferences satisfy 0 < min_budget <=
\* optimal_budget <= max_budget and max_timeline > 0, the customer's budget
\* utility of every offer it evaluates is at most 0.5 and its total utility
\* at most 0.75, so every odd round is recorded as rejected and an agreement
\* is reached only in an even round, by the planner.
C16_CustomerNeverAccepts ==
    \A r \in DOMAIN sim :
        LET c == sim[r].customer
            h == History(r)
        IN  (/\ 0 < c.min_budget
             /\ BudgetOrdered(c)
             /\ c.max_timeline > 0) =>
                /\ \A i \in DOMAIN h : i % 2 = 1 =>
                      /\ ~h[i].accepted
                      /\ calculate_budget_utility("customer", c, h[i].offer.budget) <= 5000
                      /\ calculate_total_utility("customer", c, h[i].offer) <= 75000
                /\ call[r].pc = "agreed" =>
                      /\ Len(h) % 2 = 0
                      /\ Last(h).offering_agent = "customer"

\* such a customer's run went through three of its own rejections and ended
\* in an agreement
C16_Witness ==
    \E r \in DOMAIN sim :
        /\ 0 < sim[r].customer.min_budget
        /\ BudgetOrdered(sim[r].customer)
        /\ sim[r].customer.max_timeline > 0
        /\ call[r].pc = "agreed"
        /\ Len(History(r)) >= 6

-----------------------------------------------------------------------------
(* More properties of repeated calls on one simulation *)

\* C17: over any sequence of calls on one instance the round counter stays
\* within 0..10, the history length equals the counter as long as no
\* utility computation raised, and a call entered with the counter at 10
\* returns None at once, evaluating nothing and appending nothing.
C17_RoundCounterIsInstanceState ==
    /\ [](\A r \in DOMAIN sim :
            /\ 0 <= sim[r].current_round
            /\ sim[r].current_round <= 10
            /\ Len(History(r)) <= sim[r].current_round
            /\ call[r].pc = "new" => sim[r].current_round = 0 /\ History(r) = <<>>)
    /\ [][\A r \in DOMAIN sim :
            (Len(History(r)) = sim[r].current_round /\ call'[r].pc # "raised") =>
                Len(History(r)') = sim'[r].current_round]_vars
    /\ [][\A r \in DOMAIN sim :
            (call[r].pc = "loop" /\ sim[r].current_round = 10) =>
                /\ call'[r].pc = "exhausted"
                /\ call'[r].result = <<>>
                /\ sim' = sim]_vars

\* a second call entered after the first had used up all 10 rounds, and
\* returned None with the history as it was
C17_Witness ==
    \E r \in DOMAIN sim :
        /\ call[r].calls = 2
        /\ call[r].base = 10
        /\ call[r].pc = "exhausted"
        /\ Len(History(r)) = 10
        /\ sim[r].current_round = 10

-----------------------------------------------------------------------------
(* The example of main *)

IsMain(r) == sim[r].customer = main_customer /\ sim[r].wedding_planner = main_planner

\* C18: with main's Preferences rounds 1 to 5 are rejected and the run ends
\* Agreed in round 6, returning the offer with budget 16537.5, services
\* Standard and timeline 4.374; the history has 6 records and the last one
\* is attributed to the customer.
C18_MainAgreesInRoundSix ==
    \A r \in DOMAIN sim :
        IsMain(r) =>
            LET h == History(r) IN
            /\ Len(h) <= 6
            /\ \A i \in DOMAIN h : h[i].accepted <=> i = 6
            /\ call[r].pc \in Terminal =>
                  /\ call[r].pc = "agreed"
                  /\ Len(h) = 6
                  /\ call[r].result = <<[budget |-> 529200, services |-> "Standard",
                                         timeline |-> 437400]>>
                  /\ h[6].offer = call[r].result[1]
                  /\ h[6].offering_agent = "customer"

\* main's run has ended
C18_Witness ==
    \E r \in DOMAIN sim : IsMain(r) /\ call[r].pc = "agreed" /\ Len(History(r)) = 6

====
